---- MODULE Spec2Model ----
(***************************************************************************)
(* A model of the web crawler / RAG ingestion pipeline:                    *)
(*   - WebCrawler._save_page and the page table (app/services/crawler.py)  *)
(*   - EmbeddingQueue: start, stop, enqueue_page, _worker, _process_batch  *)
(*     (app/services/embedding_queue.py)                                   *)
(*   - WebCrawler.crawl_domain, _crawl_urls, _crawl_single_url             *)
(*   - VectorDatabase._split_text (app/services/vector_db.py)              *)
(*   - PDFProcessor.extract_text (app/services/pdf_processor.py)           *)
(*   - CrawlerService's shutdown (main_crawl.py)                           *)
(* The specifications share the variables: Spec and RunSpec (page store    *)
(* and embedding queue), CrawlSpec, SchedulerSpec, LevelSpec and           *)
(* ShutdownSpec (a WebCrawler crawling), SitemapSpec, DomainSpec, PdfSpec, *)
(* SplitSpec and BoundarySpec (one function each, on bounded inputs).      *)
(***************************************************************************)
EXTENDS Integers, Sequences, FiniteSets, TLC

(***************************************************************************)
(* Bounds of the model                                                     *)
(***************************************************************************)
\* size of the modelled checksum space; page contents are 0..HashBuckets, so
\* that two different contents share a checksum (md5 is not injective)
HashBuckets == 2
\* IDs the intake accepts in one run of Spec
MaxAccepted == 2
\* worker task objects that may exist at once
MaxTasks == 2
\* EmbeddingQueue(batch_size=...): the constructor parameter
BatchSize == 2
\* batch_timeout, in units of the model's clock
BatchTimeout == 2

(***************************************************************************)
(* Program constants                                                       *)
(***************************************************************************)
\* _process_batch: max_retries = 3
max_retries == 3

(***************************************************************************)
(* URLs: a scheme and the rest of the URL string                           *)
(***************************************************************************)
Schemes == {"https", "http"}
Rests == {"a", "b"}
Urls == [scheme : Schemes, rest : Rests]
NoUrl == [scheme |-> "none", rest |-> "none"]

\* url.replace('https://', 'http://')
HttpUrl(u) == [u EXCEPT !.scheme = "http"]

\* _normalize_domain(domain) for the domain crawled
BaseUrl == [scheme |-> "https", rest |-> "a"]
\* the URL redirects lead to, on a second host
Canonical == [scheme |-> "https", rest |-> "b"]

\* the largest settings.max_crawl_depth and
\* settings.crawler_concurrent_requests of the crawls
MaxDepth == 2
CrawlBatch == 2

MaxId == Cardinality(Urls)
Ids == 1..MaxId
Contents == 0..HashBuckets
Tasks == 1..MaxTasks

VARIABLES
    \* ---- the relational store ----
    pages,          \* crawled_pages rows: [id, url, content, checksum]
    next_id,        \* the next autoincrement primary key
    \* ---- EmbeddingQueue ----
    queue,          \* self.queue (asyncio.Queue, FIFO, unbounded)
    is_running,     \* self.is_running
    worker_task,    \* self.worker_task: 0 is None, else a task
    worker_cancelled, \* whether the task self.worker_task names ended cancelled
    processed_count,
    failed_count,
    processed_ids,  \* self._processed_ids
    wpc,            \* per task: where the _worker coroutine is suspended
    batch,          \* per task: the local batch / page_ids
    attempt,        \* per task: the retry loop variable of _process_batch
    elapsed,        \* per task: the time since timeout_start was taken
    first_at,       \* per task: the elapsed time at which the first ID of the
                    \* batch was received, -1 while the batch is empty
    stop_pc,        \* the stop() call: "idle" or "waiting" (in wait_for)
    stop_target,    \* the task object wait_for was given
    \* ---- WebCrawler ----
    respect_robots, \* settings.respect_robots_txt
    max_depth,      \* settings.max_crawl_depth
    batch_size,     \* settings.crawler_concurrent_requests
    service,        \* CrawlerService: "running", "stopping" or "stopped"
    domains,        \* the domains the owner of the WebCrawler crawls with it
    calls,          \* the crawl_domain calls made on the WebCrawler
    approved_domains, \* self._approved_domains ({} also stands for None)
    loads,          \* observation: the reads of the Domain table made by
                    \* _load_approved_domains
    load_failed,    \* observation: the read of the Domain table raised
    robots,         \* what the robots.txt request of this crawl answered
    robots_allowed, \* crawl_domain's local robots_allowed
    visited_urls,   \* self.visited_urls
    pages_crawled,  \* stats["pages_crawled"]
    pages_failed,   \* stats["pages_failed"]
    crawl_log,      \* crawl_logs rows: [url, status]
    cpc,            \* crawl_domain: "idle", "crawling", "returned", "raised"
    seeds,          \* crawl_domain's urls_to_crawl
    stack,          \* the _crawl_urls calls in progress: [remaining, depth]
    tasks,          \* per URL of the batch being gathered: its position
    new_urls,       \* the links returned so far by the tasks of the batch
    batch_raised,   \* a task of the batch ended with an exception
    \* ---- VectorDatabase._split_text ----
    text,           \* the argument
    chunk_size,     \* settings.chunk_size
    chunk_overlap,  \* settings.chunk_overlap
    start,          \* the loop's window start
    iteration,      \* the loop's iteration counter
    chunks,         \* the chunks appended so far
    spc,            \* "idle" (not called), "loop" or "done" (returned)
    covered,        \* observation: the positions of the text put in a chunk
    \* ---- WebCrawler._is_same_domain ----
    d_url,          \* the argument url
    d_base,         \* the argument base_url
    d_result,       \* the value returned
    dpc,            \* "idle" (not called), "called" or "done" (returned)
    \* ---- WebCrawler._get_sitemap_urls ----
    sm_answers,     \* what the site answers at each sitemap location
    sm_requested,   \* observation: the sitemap locations requested, in order
    sm_urls,        \* the local sitemap_urls
    smpc,           \* "idle" (not called), "loop", "break" or "done"
    \* ---- PDFProcessor.extract_text ----
    pdf_tiers,      \* what each extraction tier returns for the PDF
    enable_ocr,     \* self.enable_ocr
    pdf_text,       \* the local text
    pdf_ran,        \* observation: the tiers run, in order
    ppc,            \* "idle" (not called), "tier1", "tier2" (after each
                    \* tier) or "done" (returned)
    \* ---- observations ----
    gets,           \* per URL: the page GETs made to it
    distance,       \* per URL: the least number of links from a seed URL
                    \* to it over the pages fetched, as known at each fetch
    error_logs,     \* app_logger error/warning records for failed URLs
    accepted,       \* per ID: how many times it was put on the intake
    embedded,       \* per ID: how many add_documents calls covering it succeeded
    last            \* the operation that made the last step

qvars == <<pages, next_id, queue, is_running, worker_task, worker_cancelled,
           processed_count,
           failed_count, processed_ids, wpc, batch, attempt, stop_pc,
           stop_target, elapsed, first_at, accepted, embedded, last>>

cvars == <<respect_robots, max_depth, batch_size, service, domains, calls, approved_domains, loads, load_failed, robots, robots_allowed, visited_urls, pages_crawled,
           pages_failed, crawl_log, cpc, seeds, stack, tasks, new_urls,
           batch_raised, gets, distance, error_logs>>

dvars == <<d_url, d_base, d_result, dpc>>

mvars == <<sm_answers, sm_requested, sm_urls, smpc>>

\* the calls of the other functions modelled one at a time
pvars == <<pdf_tiers, enable_ocr, pdf_text, pdf_ran, ppc>>
fvars == <<mvars, pvars>>

svars == <<text, chunk_size, chunk_overlap, start, iteration, chunks, spc,
           covered, dvars, fvars>>

\* what a crawler step without a save, and one with a save, leaves alone
qvars_but_last == <<svars, pages, next_id, queue, is_running, worker_task,
                    worker_cancelled, processed_count, failed_count,
                    processed_ids, wpc, batch, attempt, stop_pc, stop_target,
                    elapsed, first_at, accepted, embedded>>
qvars_but_save == <<svars, is_running, worker_task, worker_cancelled, processed_count,
                    failed_count, processed_ids, wpc, batch, attempt, stop_pc,
                    stop_target, elapsed, first_at, embedded>>

vars == <<qvars, cvars, svars>>

\* the clock of a worker's collection loop
timer == <<elapsed, first_at>>

(***************************************************************************)
(* Helpers                                                                 *)
(***************************************************************************)
Range(s) == {s[i] : i \in 1..Len(s)}

RECURSIVE SumOver(_, _)
SumOver(f, S) == IF S = {} THEN 0
                 ELSE LET x == CHOOSE y \in S : TRUE
                      IN f[x] + SumOver(f, S \ {x})

\* what `last` records: the operation, and for _save_page its arguments and
\* the content stored for the URL when it was called (NoContent: no page)
NoContent == 0 - 1
Op(name, u, c, b) == [op |-> name, url |-> u, content |-> c, before |-> b]
Step == Op("step", NoUrl, NoContent, NoContent)
\* for a response that was saved: the URL requested, the URL the response
\* came from, the base URL given to _extract_links, the content and the links
OpFetch(name, u, final_url, base_url, c, page) ==
    [op |-> name, url |-> final_url, content |-> c, before |-> NoContent,
     requested |-> u, base |-> base_url, page |-> page]

(***************************************************************************)
(* WebCrawler._save_page                                                   *)
(***************************************************************************)
\* hashlib.md5(content.encode()).hexdigest(): a hash, many-to-one
md5(c) == c % HashBuckets

\* db.query(CrawledPage).filter(CrawledPage.url == url)
PagesWithUrl(u) == {p \in pages : p.url = u}

\* the content stored under a URL
StoredContent(u) ==
    IF PagesWithUrl(u) = {} THEN NoContent
    ELSE (CHOOSE p \in PagesWithUrl(u) : TRUE).content

\* mutant: the page is rewritten and queued on every re-crawl
ContentChanged_Always(existing, checksum) == TRUE

\* existing_page.checksum != checksum
ContentChanged(existing, checksum) == existing.checksum # checksum

\* mutant: the content is rewritten, the checksum left as it was
UpdatedPage_KeepsChecksum(existing, c, checksum) ==
    [existing EXCEPT !.content = c]

\* existing_page.content = content; existing_page.checksum = checksum
UpdatedPage(existing, c, checksum) ==
    [existing EXCEPT !.content = c, !.checksum = checksum]

\* mutant: enqueue_page puts every ID
EnqueueAccepts_Always(page_id) == TRUE

\* mutant: enqueue_page drops every ID
EnqueueAccepts_Never(page_id) == FALSE

\* mutant: enqueue_page drops the ID when the queue is not running
EnqueueAccepts_OnlyRunning(page_id) ==
    is_running /\ page_id \notin processed_ids

\* EmbeddingQueue.enqueue_page: put unless already processed
EnqueueAccepts(page_id) == page_id \notin processed_ids

\* the effect of enqueue_page(page_id) on the intake
EnqueuePageEffect(page_id) ==
    IF EnqueueAccepts(page_id)
    THEN /\ queue' = Append(queue, page_id)
         /\ accepted' = [accepted EXCEPT ![page_id] = @ + 1]
    ELSE UNCHANGED <<queue, accepted>>

\* needs_embedding and page_id
SavePageEffect(u, c) ==
    LET checksum == md5(c)
        found == PagesWithUrl(u)
    IN IF found # {}
       THEN LET existing == CHOOSE p \in found : TRUE
            IN IF ContentChanged(existing, checksum)
               THEN /\ pages' = (pages \ {existing}) \cup
                               {UpdatedPage(existing, c, checksum)}
                    /\ UNCHANGED next_id
                    /\ EnqueuePageEffect(existing.id)
               ELSE UNCHANGED <<pages, next_id, queue, accepted>>
       ELSE /\ pages' = pages \cup {[id |-> next_id, url |-> u, content |-> c,
                                     checksum |-> checksum]}
            /\ next_id' = next_id + 1
            /\ EnqueuePageEffect(next_id)

AcceptedTotal == SumOver(accepted, Ids)

\* the URLs saved in Spec
SaveUrls == {u \in Urls : u.scheme = "https"}

SavePage ==
    \E u \in SaveUrls, c \in Contents :
        /\ UNCHANGED <<cvars, svars>>
        /\ AcceptedTotal < MaxAccepted
        /\ SavePageEffect(u, c)
        /\ last' = Op("save", u, c, StoredContent(u))
        /\ UNCHANGED timer
        /\ UNCHANGED <<is_running, worker_task, worker_cancelled,
                       processed_count, failed_count, processed_ids, wpc, batch,
                       attempt, stop_pc, stop_target, embedded>>

(***************************************************************************)
(* EmbeddingQueue.start / stop                                             *)
(***************************************************************************)
Active(t) == wpc[t] # "idle"

\* `timeout_start = asyncio.get_event_loop().time()` and `batch = []`
TimerReset(T) ==
    /\ elapsed' = [t \in Tasks |-> IF t \in T THEN 0 ELSE elapsed[t]]
    /\ first_at' = [t \in Tasks |-> IF t \in T THEN 0 - 1 ELSE first_at[t]]
ActiveTasks == {t \in Tasks : Active(t)}

\* a task object that is free to be created: finished, and not the one a
\* pending stop() is still awaiting
FreeTasks == {t \in Tasks : ~Active(t) /\ ~(stop_pc = "waiting" /\ stop_target = t)}

\* asyncio.create_task: the new task object
NewTask == CHOOSE t \in FreeTasks : \A o \in FreeTasks : t <= o

\* start(): `if self.is_running: return`
StartGuard == ~is_running

Start ==
    /\ UNCHANGED <<cvars, svars>>
    /\ IF StartGuard
       THEN LET t == NewTask IN
              /\ FreeTasks # {}
              /\ is_running' = TRUE
              /\ worker_task' = t
              /\ worker_cancelled' = FALSE
              /\ wpc' = [wpc EXCEPT ![t] = "collect"]
              /\ batch' = [batch EXCEPT ![t] = <<>>]
              /\ attempt' = [attempt EXCEPT ![t] = 0]
              /\ TimerReset({t})
       ELSE UNCHANGED <<is_running, worker_task, worker_cancelled, wpc, batch,
                        attempt, timer>>
    /\ last' = Step
    /\ UNCHANGED <<pages, next_id, queue, processed_count, failed_count,
                   processed_ids, stop_pc, stop_target, accepted, embedded>>

\* stop() up to its first suspension in wait_for
StopBegin ==
    /\ UNCHANGED <<cvars, svars>>
    /\ stop_pc = "idle"
    /\ is_running
    /\ is_running' = FALSE
    /\ IF worker_task # 0 /\ Active(worker_task)
       THEN /\ stop_pc' = "waiting"
            /\ stop_target' = worker_task
            /\ last' = Step
       ELSE /\ UNCHANGED <<stop_pc, stop_target>>
            \* wait_for on a finished task returns at once, and re-raises
            \* CancelledError if that task ended cancelled
            /\ last' = Op(IF worker_task # 0 /\ worker_cancelled
                          THEN "stop_raise" ELSE "stop_return", NoUrl,
                          NoContent, NoContent)
    /\ UNCHANGED <<pages, next_id, queue, worker_task, worker_cancelled,
                   processed_count, failed_count, processed_ids, wpc, batch,
                   attempt, timer, accepted, embedded>>

\* wait_for returns: the awaited task finished within the grace period
StopWorkerDone ==
    /\ UNCHANGED <<cvars, svars>>
    /\ stop_pc = "waiting"
    /\ ~Active(stop_target)
    /\ stop_pc' = "idle"
    /\ stop_target' = 0
    /\ last' = Op("stop_return", NoUrl, NoContent, NoContent)
    /\ UNCHANGED <<pages, next_id, queue, is_running, worker_task,
                   worker_cancelled, processed_count, failed_count,
                   processed_ids, wpc, batch, attempt, timer, accepted,
                   embedded>>

\* the tasks the timeout path cancels: wait_for cancels the task it was given,
\* then stop() cancels self.worker_task (read again) and awaits it
CancelledOnTimeout == {stop_target, worker_task}

\* wait_for times out after the grace period
StopTimeout ==
    /\ UNCHANGED <<cvars, svars>>
    /\ stop_pc = "waiting"
    /\ Active(stop_target)
    /\ wpc' = [t \in Tasks |-> IF t \in CancelledOnTimeout THEN "idle" ELSE wpc[t]]
    /\ batch' = [t \in Tasks |-> IF t \in CancelledOnTimeout THEN <<>> ELSE batch[t]]
    /\ attempt' = [t \in Tasks |-> IF t \in CancelledOnTimeout THEN 0 ELSE attempt[t]]
    /\ TimerReset(CancelledOnTimeout)
    /\ worker_cancelled' = TRUE
    /\ stop_pc' = "idle"
    /\ stop_target' = 0
    /\ last' = Op("stop_return", NoUrl, NoContent, NoContent)
    /\ UNCHANGED <<pages, next_id, queue, is_running, worker_task,
                   processed_count, failed_count, processed_ids, accepted,
                   embedded>>

(***************************************************************************)
(* EmbeddingQueue._worker and _process_batch, one action per stretch of    *)
(* code between two suspensions                                            *)
(***************************************************************************)
\* pages = db.query(CrawledPage).filter(CrawledPage.id.in_(page_ids)).all()
PagesIn(page_ids) == {p \in pages : p.id \in Range(page_ids)}

\* the first lines of one attempt of _process_batch, up to run_in_executor;
\* `if not pages: return` ends the call
BeginAttempt(t, page_ids, n) ==
    IF PagesIn(page_ids) = {}
    THEN /\ wpc' = [wpc EXCEPT ![t] = "collect"]
         /\ batch' = [batch EXCEPT ![t] = <<>>]
         /\ attempt' = [attempt EXCEPT ![t] = 0]
    ELSE /\ wpc' = [wpc EXCEPT ![t] = "embed"]
         /\ batch' = [batch EXCEPT ![t] = page_ids]
         /\ attempt' = [attempt EXCEPT ![t] = n]

\* `remaining_time <= 0`, remaining_time being batch_timeout less the time
\* since timeout_start
TimedOut(t) == elapsed[t] >= BatchTimeout

\* time passes while the worker is in its collection loop
TimePasses(t) ==
    /\ UNCHANGED <<cvars, svars>>
    /\ wpc[t] = "collect"
    /\ ~TimedOut(t)
    /\ elapsed' = [elapsed EXCEPT ![t] = @ + 1]
    /\ last' = Step
    /\ UNCHANGED <<pages, next_id, queue, is_running, worker_task,
                   worker_cancelled, processed_count, failed_count,
                   processed_ids, wpc, batch, attempt, stop_pc, stop_target,
                   first_at, accepted, embedded>>

\* the outer loop goes round with an empty batch: batch_timeout elapsed
\* without an ID, and the worker is not to exit
CollectAgain(t) ==
    /\ UNCHANGED <<cvars, svars>>
    /\ wpc[t] = "collect"
    /\ batch[t] = <<>>
    /\ TimedOut(t)
    /\ is_running \/ queue # <<>>
    /\ TimerReset({t})
    /\ last' = Step
    /\ UNCHANGED <<pages, next_id, queue, is_running, worker_task,
                   worker_cancelled, processed_count, failed_count,
                   processed_ids, wpc, batch, attempt, stop_pc, stop_target,
                   accepted, embedded>>

\* page_id = await wait_for(self.queue.get(), ...); batch.append(page_id)
WorkerGet(t) ==
    /\ UNCHANGED <<cvars, svars>>
    /\ wpc[t] = "collect"
    /\ Len(batch[t]) < BatchSize
    /\ ~TimedOut(t)
    /\ queue # <<>>
    /\ batch' = [batch EXCEPT ![t] = Append(@, Head(queue))]
    /\ queue' = Tail(queue)
    /\ first_at' = [first_at EXCEPT ![t] = IF batch[t] = <<>> THEN elapsed[t] ELSE @]
    /\ UNCHANGED elapsed
    /\ last' = Step
    /\ UNCHANGED <<pages, next_id, is_running, worker_task, worker_cancelled,
                   processed_count, failed_count, processed_ids, wpc, attempt,
                   stop_pc, stop_target, accepted, embedded>>

\* the collection loop ends with a batch (full, batch_timeout elapsed, or
\* stopping with the intake empty) and _process_batch starts its first attempt
WorkerDispatch(t) ==
    /\ UNCHANGED <<cvars, svars>>
    /\ wpc[t] = "collect"
    /\ batch[t] # <<>>
    /\ \/ Len(batch[t]) = BatchSize
       \/ TimedOut(t)
       \/ ~is_running /\ queue = <<>>
    /\ BeginAttempt(t, batch[t], 0)
    /\ TimerReset({t})
    /\ last' = Step
    /\ UNCHANGED <<pages, next_id, queue, is_running, worker_task,
                   worker_cancelled, processed_count, failed_count,
                   processed_ids, stop_pc, stop_target, accepted, embedded>>

\* `while self.is_running or not self.queue.empty()` and the break at
\* `if not self.is_running and not batch`: the worker returns
WorkerExitGuard(t) == ~is_running /\ queue = <<>> /\ batch[t] = <<>>

WorkerExit(t) ==
    /\ UNCHANGED <<cvars, svars>>
    /\ wpc[t] = "collect"
    /\ WorkerExitGuard(t)
    /\ wpc' = [wpc EXCEPT ![t] = "idle"]
    /\ TimerReset({t})
    /\ last' = Step
    /\ UNCHANGED <<pages, next_id, queue, is_running, worker_task,
                   worker_cancelled, processed_count, failed_count,
                   processed_ids, batch, attempt, stop_pc, stop_target,
                   accepted, embedded>>

\* self.processed_count += len(pages)
ProcessedIncrement(page_ids) == Cardinality(PagesIn(page_ids))

\* vector_db.add_documents returned: mark processed, count, break
EmbedSuccess(t) ==
    /\ UNCHANGED <<cvars, svars>>
    /\ wpc[t] = "embed"
    /\ UNCHANGED timer
    /\ processed_ids' = processed_ids \cup Range(batch[t])
    /\ processed_count' = processed_count + ProcessedIncrement(batch[t])
    /\ embedded' = [i \in Ids |-> IF i \in {p.id : p \in PagesIn(batch[t])}
                                  THEN embedded[i] + 1 ELSE embedded[i]]
    /\ wpc' = [wpc EXCEPT ![t] = "collect"]
    /\ batch' = [batch EXCEPT ![t] = <<>>]
    /\ attempt' = [attempt EXCEPT ![t] = 0]
    /\ last' = Step
    /\ UNCHANGED <<pages, next_id, queue, is_running, worker_task,
                   worker_cancelled, failed_count, stop_pc, stop_target,
                   accepted>>

\* mutant: one retry too many
WillRetry_OffByOne(n) == n < max_retries

\* `if attempt < max_retries - 1`: sleep and retry, else give the batch up
WillRetry(n) == n < max_retries - 1

\* mutant: the worker ends when a batch is given up
AfterGivingUp_Exits == "idle"

\* the else branch of _process_batch's except clause counts and logs, the
\* for loop ends and _process_batch returns to the worker's outer loop
AfterGivingUp == "collect"

\* the attempt raised (the query or add_documents)
EmbedFail(t) ==
    /\ UNCHANGED <<cvars, svars>>
    /\ wpc[t] = "embed"
    /\ UNCHANGED timer
    /\ IF WillRetry(attempt[t])
       THEN /\ wpc' = [wpc EXCEPT ![t] = "backoff"]
            /\ last' = Step
            /\ UNCHANGED <<failed_count, batch, attempt>>
       ELSE /\ failed_count' = failed_count + Len(batch[t])
            /\ wpc' = [wpc EXCEPT ![t] = AfterGivingUp]
            /\ batch' = [batch EXCEPT ![t] = <<>>]
            /\ attempt' = [attempt EXCEPT ![t] = 0]
            /\ last' = Op("batch_dropped", NoUrl, NoContent, NoContent)
    /\ UNCHANGED <<pages, next_id, queue, is_running, worker_task,
                   worker_cancelled, processed_count, processed_ids, stop_pc,
                   stop_target, accepted, embedded>>

\* asyncio.sleep(retry_delay) is over: the next attempt of the for loop
WorkerRetry(t) ==
    /\ UNCHANGED <<cvars, svars>>
    /\ wpc[t] = "backoff"
    /\ UNCHANGED timer
    /\ BeginAttempt(t, batch[t], attempt[t] + 1)
    /\ last' = Step
    /\ UNCHANGED <<pages, next_id, queue, is_running, worker_task,
                   worker_cancelled, processed_count, failed_count,
                   processed_ids, stop_pc, stop_target, accepted, embedded>>

(***************************************************************************)
(* Spec: the page store and the embedding queue                            *)
(***************************************************************************)
\* the text of a PDF as a tier returns it: the tier and the length of the
\* text stripped
PdfText(tier, length) == [tier |-> tier, length |-> length]
NoPdfText == PdfText("none", 0)

\* _split_text, _is_same_domain, _get_sitemap_urls and extract_text not called
SplitIdle ==
    /\ text = <<>>
    /\ chunk_size = 1
    /\ chunk_overlap = 0
    /\ start = 0
    /\ iteration = 0
    /\ chunks = <<>>
    /\ spc = "idle"
    /\ covered = {}
    /\ d_url = <<>>
    /\ d_base = <<>>
    /\ d_result = FALSE
    /\ dpc = "idle"
    /\ sm_answers = <<>>
    /\ sm_requested = <<>>
    /\ sm_urls = {}
    /\ smpc = "idle"
    /\ pdf_tiers = <<>>
    /\ enable_ocr = FALSE
    /\ pdf_text = NoPdfText
    /\ pdf_ran = <<>>
    /\ ppc = "idle"

\* a WebCrawler just constructed, no crawl_domain call made yet
CrawlerInit ==
    /\ service = "running"
    /\ calls = 0
    /\ approved_domains = {}
    /\ loads = 0
    /\ load_failed = FALSE
    /\ robots = "unchecked"
    /\ robots_allowed = TRUE
    /\ visited_urls = {}
    /\ pages_crawled = 0
    /\ pages_failed = 0
    /\ crawl_log = {}
    /\ cpc = "idle"
    /\ seeds = {}
    /\ stack = <<>>
    /\ tasks = [u \in Urls |-> "none"]
    /\ new_urls = {}
    /\ batch_raised = FALSE
    /\ gets = [u \in Urls |-> 0]
    /\ distance = [u \in Urls |-> MaxDepth + 1]
    /\ error_logs = 0

\* an empty store and an EmbeddingQueue just constructed
QueueInit ==
    /\ pages = {}
    /\ next_id = 1
    /\ queue = <<>>
    /\ is_running = FALSE
    /\ worker_task = 0
    /\ worker_cancelled = FALSE
    /\ processed_count = 0
    /\ failed_count = 0
    /\ processed_ids = {}
    /\ wpc = [t \in Tasks |-> "idle"]
    /\ batch = [t \in Tasks |-> <<>>]
    /\ attempt = [t \in Tasks |-> 0]
    /\ elapsed = [t \in Tasks |-> 0]
    /\ first_at = [t \in Tasks |-> 0 - 1]
    /\ stop_pc = "idle"
    /\ stop_target = 0
    /\ accepted = [i \in Ids |-> 0]
    /\ embedded = [i \in Ids |-> 0]
    /\ last = Op("init", NoUrl, NoContent, NoContent)

Init ==
    /\ CrawlerInit
    /\ max_depth = MaxDepth
    /\ batch_size = CrawlBatch
    /\ respect_robots = TRUE
    /\ domains = <<BaseUrl>>
    /\ QueueInit
    /\ SplitIdle

Next ==
    \/ SavePage
    \/ Start
    \/ StopBegin
    \/ StopWorkerDone
    \/ StopTimeout
    \/ \E t \in Tasks : TimePasses(t)
    \/ \E t \in Tasks : CollectAgain(t)
    \/ \E t \in Tasks : WorkerGet(t)
    \/ \E t \in Tasks : WorkerDispatch(t)
    \/ \E t \in Tasks : WorkerExit(t)
    \/ \E t \in Tasks : EmbedSuccess(t)
    \/ \E t \in Tasks : EmbedFail(t)
    \/ \E t \in Tasks : WorkerRetry(t)

Spec == Init /\ [][Next]_vars

(***************************************************************************)
(* RunSpec: the page store and the embedding queue while stop() is not     *)
(* called, with the scheduling of the consumer task                        *)
(***************************************************************************)
\* a step of the worker task other than a get from the intake
WorkerStep ==
    \E t \in Tasks : \/ TimePasses(t)
                      \/ CollectAgain(t)
                      \/ WorkerDispatch(t)
                      \/ EmbedSuccess(t)
                      \/ EmbedFail(t)
                      \/ WorkerRetry(t)

RunNext ==
    \/ SavePage
    \/ Start
    \/ \E t \in Tasks : WorkerGet(t)
    \/ WorkerStep

\* the event loop runs the worker task whenever it can go on (time passes,
\* add_documents and the sleeps return), and a queue.get() made while the
\* intake holds an ID returns it: the worker makes one on every pass of its
\* outer loop
RunFairness ==
    /\ WF_vars(WorkerStep)
    /\ \A t \in Tasks : SF_vars(WorkerGet(t))

RunSpec == Init /\ [][RunNext]_vars /\ RunFairness

(***************************************************************************)
(* WebCrawler.crawl_domain, _crawl_urls, _crawl_single_url                 *)
(***************************************************************************)
\* what GET /robots.txt answers: "disallow" is status 200 with a body that
\* contains 'Disallow: /', "allow" any other response, "unreachable" an error
RobotsAnswers == {"disallow", "allow", "unreachable"}

\* _check_robots_txt
CheckRobotsTxt(respect, answer) == ~respect \/ answer # "disallow"

\* crawl_domain: `except Exception` returns the stats with an "error" entry
CrawlDomainOnException == "returned_error"

\* mutant: gather without return_exceptions
GatherReturnsExceptions_Off == FALSE

\* asyncio.gather(*tasks, return_exceptions=True)
GatherReturnsExceptions == TRUE

\* the inputs of a crawl: the sitemaps, link sets, redirects and page contents
\* the site serves
MaxSitemap == 2
MaxLinks == 1
\* the URLs the site's sitemap and pages name
SiteUrls == Urls \ {HttpUrl(Canonical)}
SitemapSets == {S \in SUBSET SiteUrls : Cardinality(S) <= MaxSitemap}
\* an href or src that is relative: the path "/"
RelativeRoot == [scheme |-> "relative", rest |-> "/"]
Hrefs == SiteUrls \cup {RelativeRoot}
\* what a page holds: the hrefs of its anchors and the srcs of its frames and
\* iframes, those with a skipped prefix left out
PageLinks == {page \in [anchors : SUBSET Hrefs, frames : SUBSET Hrefs] :
                Cardinality(page.anchors) + Cardinality(page.frames) <= MaxLinks}
NoLinks == [anchors |-> {}, frames |-> {}]
\* str(response.url): the URL itself, or the URL a redirect led to
FinalUrls(u) == {u, Canonical}
ServedContents == {HashBuckets}

Min(a, b) == IF a <= b THEN a ELSE b

(***************************************************************************)
(* URL strings (sequences of characters) and the domain tests              *)
(***************************************************************************)
\* str.lower() on the characters used
LowerChar(ch) ==
    CASE ch = "A" -> "a"
      [] ch = "B" -> "b"
      [] ch = "C" -> "c"
      [] ch = "W" -> "w"
      [] OTHER -> ch
Lower(str) == [i \in 1..Len(str) |-> LowerChar(str[i])]

StartsWith(str, prefix) ==
    Len(str) >= Len(prefix) /\ SubSeq(str, 1, Len(prefix)) = prefix
\* str.endswith(suffix)
EndsWith(str, suffix) ==
    Len(str) >= Len(suffix)
      /\ SubSeq(str, Len(str) - Len(suffix) + 1, Len(str)) = suffix
\* str.removeprefix(prefix)
RemovePrefix(str, prefix) ==
    IF StartsWith(str, prefix) THEN SubSeq(str, Len(prefix) + 1, Len(str))
    ELSE str

Www == <<"w", "w", "w", ".">>
Dot == <<".">>

\* the lowest position of a character of the set in the string, or
\* Len(str) + 1
FirstOf(str, chars) ==
    LET hits == {i \in 1..Len(str) : str[i] \in chars}
    IN IF hits = {} THEN Len(str) + 1
       ELSE CHOOSE i \in hits : \A j \in hits : i <= j

\* urlparse(url).netloc: what follows '//' after the scheme, up to the next
\* '/', '?' or '#'; it keeps the port
UrlNetloc(url) ==
    LET colon == FirstOf(url, {":"})
        after == IF colon <= Len(url) /\ colon > 1
                 THEN SubSeq(url, colon + 1, Len(url)) ELSE url
    IN IF StartsWith(after, <<"/", "/">>)
       THEN LET rest == SubSeq(after, 3, Len(after))
            IN SubSeq(rest, 1, FirstOf(rest, {"/", "?", "#"}) - 1)
       ELSE <<>>

\* _is_same_domain(url, base_url)
IsSameDomain(url, base_url) ==
    LET url_netloc == Lower(UrlNetloc(url))
        base_netloc == Lower(UrlNetloc(base_url))
        base_domain == RemovePrefix(base_netloc, Www)
        url_domain == RemovePrefix(url_netloc, Www)
    IN url_domain = base_domain \/ EndsWith(url_domain, Dot \o base_domain)

\* the inputs of _is_same_domain: URLs whose netloc is an optional prefix, a
\* domain and an optional port
NetlocPrefixes == {<<>>, Www, <<"W", "w", "w", ".">>, <<"b", ".">>}
NetlocDomains == {<<"a", ".", "c">>, <<"A", ".", "c">>, <<"b", "a", ".", "c">>,
                  <<"c">>}
NetlocPorts == {<<>>, <<":", "8">>}
Netlocs == {pre \o dom \o port :
              pre \in NetlocPrefixes, dom \in NetlocDomains, port \in NetlocPorts}
UrlPaths == {<<>>, <<"/", "w">>}
UrlStrings == {<<"h", ":", "/", "/">> \o n \o path : n \in Netlocs, path \in UrlPaths}

\* the URL strings of the crawl: the site's host is a.c, the second host b.c
SchemeChars(scheme) ==
    IF scheme = "https" THEN <<"h", "t", "t", "p", "s">>
    ELSE <<"h", "t", "t", "p">>
SiteNetloc(rest) ==
    IF rest = "a" THEN <<"a", ".", "c">> ELSE <<"b", ".", "c">>
UrlString(u) ==
    SchemeChars(u.scheme) \o <<":", "/", "/">> \o SiteNetloc(u.rest) \o <<"/">>

\* what the Domain table may hold when _load_approved_domains reads it
ApprovedSets == {{SiteNetloc("a")}, {SiteNetloc("a"), SiteNetloc("b")}}

\* mutant: the Domain table is read by every crawl_domain call
HasCachedDomains_Never == FALSE

\* _load_approved_domains: `if self._approved_domains is not None`
HasCachedDomains == loads > 0

\* _load_approved_domains: the cached set if there is one; else the Domain
\* table is read, and `except Exception: self._approved_domains = set()`
LoadApprovedDomains ==
    IF HasCachedDomains
    THEN {[approved |-> approved_domains, read |-> 0, failed |-> load_failed]}
    ELSE {[approved |-> stored, read |-> 1, failed |-> FALSE] :
            stored \in ApprovedSets}
         \cup {[approved |-> {}, read |-> 1, failed |-> TRUE]}

\* _is_approved_domain(url)
IsApprovedDomain(url) ==
    LET url_domain == RemovePrefix(Lower(UrlNetloc(url)), Www)
    IN \E approved_domain \in approved_domains :
          \/ url_domain = approved_domain
          \/ EndsWith(url_domain, Dot \o approved_domain)

\* urljoin(base_url, href)
UrlJoin(base_url, href) == IF href = RelativeRoot THEN base_url ELSE href

\* _extract_links(soup, base_url): of the URLs the page's anchors resolve to,
\* those on the domain of base_url and those on an approved domain; of the
\* URLs its frames and iframes resolve to, those on the domain of base_url
ExtractLinks(page, base_url) ==
    LET Resolved(H) == {UrlJoin(base_url, href) : href \in H}
    IN {l \in Resolved(page.anchors) :
           \/ IsSameDomain(UrlString(l), UrlString(base_url))
           \/ IsApprovedDomain(UrlString(l))}
       \cup
       {l \in Resolved(page.frames) :
           IsSameDomain(UrlString(l), UrlString(base_url))}

\* a call of _is_same_domain
SameDomainCall ==
    /\ dpc = "idle"
    /\ d_url' \in UrlStrings
    /\ d_base' \in UrlStrings
    /\ dpc' = "called"
    /\ UNCHANGED d_result
    /\ UNCHANGED <<text, chunk_size, chunk_overlap, start, iteration, chunks,
                   spc, covered, fvars>>
    /\ UNCHANGED <<qvars, cvars>>

\* its return
SameDomainReturn ==
    /\ dpc = "called"
    /\ d_result' = IsSameDomain(d_url, d_base)
    /\ dpc' = "done"
    /\ UNCHANGED <<d_url, d_base>>
    /\ UNCHANGED <<text, chunk_size, chunk_overlap, start, iteration, chunks,
                   spc, covered, fvars>>
    /\ UNCHANGED <<qvars, cvars>>
Top == stack[Len(stack)]
NoBatch == \A u \in Urls : tasks[u] = "none"

\* mutant: _crawl_urls without its depth test
DepthReached_Never(depth) == FALSE

\* `current_depth >= max_depth`
DepthReached(depth) == depth >= max_depth

\* _crawl_urls(urls_to_crawl, current_depth) up to its for loop:
\* the stack after the call is entered
EnterCrawlUrls(stk, urls, depth) ==
    IF DepthReached(depth) \/ urls = {}
    THEN stk
    ELSE Append(stk, [remaining |-> urls \ visited_urls, depth |-> depth])

\* crawl_domain up to the first batch: normalise, robots.txt, sitemap, and
\* the call of _crawl_urls on the base URL and the sitemap's URLs
\* A new stats dict is made for the call; self.visited_urls is the set the
\* constructor made, and self._approved_domains is loaded by the first call
\* only.
CrawlStart ==
    /\ cpc \in {"idle", "returned", "returned_error"}
    /\ calls < Len(domains)
    /\ calls' = calls + 1
    /\ pages_crawled' = 0
    /\ pages_failed' = 0
    /\ gets' = [u \in Urls |-> 0]
    /\ \E load \in LoadApprovedDomains :
         /\ approved_domains' = load.approved
         /\ loads' = loads + load.read
         /\ load_failed' = load.failed
    /\ \E normalised \in BOOLEAN, answer \in RobotsAnswers, sitemap_urls \in SitemapSets :
         IF ~normalised
         THEN /\ cpc' = CrawlDomainOnException
              /\ distance' = [u \in Urls |-> MaxDepth + 1]
              /\ UNCHANGED <<robots, robots_allowed, seeds, stack>>
         ELSE /\ robots' = IF respect_robots THEN answer ELSE "unchecked"
              /\ robots_allowed' = CheckRobotsTxt(respect_robots, answer)
              /\ seeds' = {domains[calls']} \cup sitemap_urls
              /\ distance' = [u \in Urls |->
                                IF u \in seeds' THEN 0 ELSE MaxDepth + 1]
              /\ stack' = EnterCrawlUrls(stack, seeds', 0)
              /\ cpc' = IF stack' = <<>> THEN "returned" ELSE "crawling"
    /\ last' = Step
    /\ UNCHANGED <<respect_robots, max_depth, batch_size, service, domains, visited_urls, crawl_log, tasks,
                   new_urls, batch_raised, error_logs>>
    /\ UNCHANGED qvars_but_last

\* mutant: _crawl_single_url without its visited check
ShouldFetch_Always(u) == TRUE

\* _crawl_single_url: `if url in self.visited_urls: return set()`
ShouldFetch(u) == u \notin visited_urls

\* one iteration of the for loop of _crawl_urls up to the gather: every task
\* of the batch runs to its first suspension, the GET of its URL
StartBatch ==
    /\ cpc = "crawling"
    /\ NoBatch
    /\ Top.remaining # {}
    /\ \E B \in SUBSET Top.remaining :
         /\ Cardinality(B) = Min(batch_size, Cardinality(Top.remaining))
         /\ stack' = [stack EXCEPT ![Len(stack)].remaining = @ \ B]
         /\ tasks' = [u \in Urls |->
                        IF u \in B
                        THEN (IF ShouldFetch(u) THEN "get" ELSE "done")
                        ELSE "none"]
         /\ visited_urls' = visited_urls \cup B
         /\ gets' = [u \in Urls |->
                        IF u \in B /\ ShouldFetch(u) THEN gets[u] + 1 ELSE gets[u]]
    /\ UNCHANGED distance
    /\ new_urls' = {}
    /\ batch_raised' = FALSE
    /\ last' = Step
    /\ UNCHANGED <<respect_robots, max_depth, batch_size, service, domains, calls, approved_domains, loads, load_failed, robots,
                   robots_allowed, pages_crawled,
                   pages_failed, crawl_log, cpc, seeds, error_logs>>
    /\ UNCHANGED qvars_but_last

\* log_entry_data: the URL the task was given, the status and, after a
\* successful save, the content type
LogEntry(u, status, ctype) ==
    [url |-> u, status |-> status, content_type |-> ctype]

\* mutant: _log_crawl adds nothing
LogRows_None(log_data) == {}

\* _log_crawl(log_data): `db.add(CrawlLog(**log_data))`
LogRows(log_data) == {log_data}

\* the end of _crawl_single_url: _log_crawl and `return new_urls`; when the
\* log write raises, the exception is the task's result
Finish(u, status, ctype, links, logged) ==
    /\ tasks' = [tasks EXCEPT ![u] = "done"]
    /\ distance' = [l \in Urls |->
                      IF l \in links
                      THEN Min(distance[l], Min(distance[u] + 1, MaxDepth + 1))
                      ELSE distance[l]]
    /\ IF logged
       THEN /\ crawl_log' = crawl_log \cup LogRows(LogEntry(u, status, ctype))
            /\ new_urls' = new_urls \cup links
            /\ UNCHANGED batch_raised
       ELSE /\ batch_raised' = TRUE
            /\ UNCHANGED <<crawl_log, new_urls>>

\* the three except clauses that count a failure
CountFailure ==
    /\ pages_failed' = pages_failed + 1
    /\ error_logs' = error_logs + 1
    /\ UNCHANGED pages_crawled

\* mutant: the redirect is not taken into account
UrlAfterRedirect_Ignored(u, final_url) == u

\* `if final_url != url: url = final_url`
UrlAfterRedirect(u, final_url) == final_url

\* the response is HTML: save under the final URL, extract the links
RespondHtml(u) ==
    /\ tasks[u] = "get"
    /\ \E final_url \in FinalUrls(u), page \in PageLinks, c \in ServedContents, logged \in BOOLEAN :
         LET url == UrlAfterRedirect(u, final_url) IN
         /\ visited_urls' = visited_urls \cup {final_url}
         /\ SavePageEffect(url, c)
         /\ Finish(u, "success", "html", ExtractLinks(page, url), logged)
         /\ last' = OpFetch("html", u, final_url, url, c, page)
    /\ pages_crawled' = pages_crawled + 1
    /\ UNCHANGED <<respect_robots, max_depth, batch_size, service, domains, calls, approved_domains, loads, load_failed, robots,
                   robots_allowed, pages_failed, cpc,
                   seeds, stack, gets, error_logs>>
    /\ UNCHANGED qvars_but_save

\* what PDFProcessor.extract_text returns: its text stripped, which is ""
\* for a PDF without text layer when OCR is off, and when extraction fails
NoText == HashBuckets + 1
PdfTexts == ServedContents \cup {NoText}

\* mutant: the PDF branch saves whatever was extracted
PdfHasText_Always(text_content) == TRUE

\* `if text_content:`
PdfHasText(text_content) == text_content # NoText

\* the response is a PDF: saved and counted only if text was extracted
RespondPdf(u) ==
    /\ tasks[u] = "get"
    /\ \E final_url \in FinalUrls(u), text_content \in PdfTexts, logged \in BOOLEAN :
         /\ visited_urls' = visited_urls \cup {final_url}
         /\ IF PdfHasText(text_content)
            THEN /\ SavePageEffect(UrlAfterRedirect(u, final_url), text_content)
                 /\ pages_crawled' = pages_crawled + 1
                 /\ Finish(u, "success", "pdf", {}, logged)
            ELSE /\ UNCHANGED <<pages, next_id, queue, accepted, pages_crawled>>
                 /\ Finish(u, "pending", "none", {}, logged)
         /\ last' = IF text_content = NoText
                    THEN Op("pdf_no_text", NoUrl, NoContent, NoContent)
                    ELSE OpFetch("pdf", u, final_url, NoUrl, text_content,
                                 NoLinks)
    /\ UNCHANGED <<respect_robots, max_depth, batch_size, service, domains, calls, approved_domains, loads, load_failed, robots,
                   robots_allowed, pages_failed, cpc,
                   seeds, stack, gets, error_logs>>
    /\ UNCHANGED qvars_but_save

\* any other content type
RespondOther(u) ==
    /\ tasks[u] = "get"
    /\ \E final_url \in FinalUrls(u), logged \in BOOLEAN :
         /\ visited_urls' = visited_urls \cup {final_url}
         /\ Finish(u, "skipped", "none", {}, logged)
    /\ last' = Step
    /\ UNCHANGED <<respect_robots, max_depth, batch_size, service, domains, calls, approved_domains, loads, load_failed, robots,
                   robots_allowed, pages_crawled,
                   pages_failed, cpc, seeds, stack, gets, error_logs>>
    /\ UNCHANGED qvars_but_last

\* `if not ssl_retry_attempted and url.startswith('https://')`
FallsBackToHttp(u) == u.scheme = "https"

\* the GET raised ClientSSLError: GET the http:// URL, or count the failure
RespondSslError(u) ==
    /\ tasks[u] = "get"
    /\ IF FallsBackToHttp(u)
       THEN /\ tasks' = [tasks EXCEPT ![u] = "get_http"]
            /\ gets' = [gets EXCEPT ![HttpUrl(u)] = @ + 1]
            /\ last' = Step
            /\ UNCHANGED <<pages_crawled, pages_failed, crawl_log, new_urls,
                           batch_raised, distance, error_logs>>
       ELSE /\ \E logged \in BOOLEAN : Finish(u, "ssl_error", "none", {}, logged)
            /\ CountFailure
            /\ last' = Op("fetch_failed", NoUrl, NoContent, NoContent)
            /\ UNCHANGED gets
    /\ UNCHANGED <<respect_robots, max_depth, batch_size, service, domains, calls, approved_domains, loads, load_failed, robots,
                   robots_allowed, visited_urls, cpc,
                   seeds, stack>>
    /\ UNCHANGED qvars_but_last

\* the GET, the extraction or the save raised another error
RespondError(u) ==
    /\ tasks[u] = "get"
    /\ \E final_url \in FinalUrls(u), logged \in BOOLEAN :
         /\ visited_urls' = visited_urls \cup {final_url}
         /\ Finish(u, "failed", "none", {}, logged)
    /\ CountFailure
    /\ last' = Op("fetch_failed", NoUrl, NoContent, NoContent)
    /\ UNCHANGED <<respect_robots, max_depth, batch_size, service, domains, calls, approved_domains, loads, load_failed, robots,
                   robots_allowed, cpc, seeds, stack,
                   gets>>
    /\ UNCHANGED qvars_but_last

\* the http:// GET answered HTML: saved under the http:// URL
FallbackHtml(u) ==
    /\ tasks[u] = "get_http"
    /\ \E page \in PageLinks, c \in ServedContents, logged \in BOOLEAN :
         /\ SavePageEffect(HttpUrl(u), c)
         /\ Finish(u, "success_http_fallback", "html",
                   ExtractLinks(page, HttpUrl(domains[calls])), logged)
         /\ last' = OpFetch("html_fallback", u, HttpUrl(u),
                            HttpUrl(domains[calls]), c, page)
    /\ pages_crawled' = pages_crawled + 1
    /\ UNCHANGED <<respect_robots, max_depth, batch_size, service, domains, calls, approved_domains, loads, load_failed, robots,
                   robots_allowed, visited_urls,
                   pages_failed, cpc, seeds, stack, gets, error_logs>>
    /\ UNCHANGED qvars_but_save

\* the http:// GET answered something else: nothing is saved or counted
FallbackOther(u) ==
    /\ tasks[u] = "get_http"
    /\ \E logged \in BOOLEAN : Finish(u, "pending", "none", {}, logged)
    /\ last' = Step
    /\ UNCHANGED <<respect_robots, max_depth, batch_size, service, domains, calls, approved_domains, loads, load_failed, robots,
                   robots_allowed, visited_urls,
                   pages_crawled, pages_failed, cpc, seeds, stack, gets,
                   error_logs>>
    /\ UNCHANGED qvars_but_last

\* the http:// GET failed too: the original SSL error is raised again
FallbackError(u) ==
    /\ tasks[u] = "get_http"
    /\ \E logged \in BOOLEAN : Finish(u, "ssl_error", "none", {}, logged)
    /\ CountFailure
    /\ last' = Op("fetch_failed", NoUrl, NoContent, NoContent)
    /\ UNCHANGED <<respect_robots, max_depth, batch_size, service, domains, calls, approved_domains, loads, load_failed, robots,
                   robots_allowed, visited_urls, cpc,
                   seeds, stack, gets>>
    /\ UNCHANGED qvars_but_last

\* the gather returns: collect new_urls, then recurse one level down if
\* there are any and the depth allows
JoinBatch ==
    /\ cpc = "crawling"
    /\ ~NoBatch
    /\ \A u \in Urls : tasks[u] \in {"none", "done"}
    /\ tasks' = [u \in Urls |-> "none"]
    /\ new_urls' = {}
    /\ batch_raised' = FALSE
    /\ IF batch_raised /\ ~GatherReturnsExceptions
       THEN /\ stack' = <<>>
            /\ cpc' = CrawlDomainOnException
       ELSE /\ stack' = IF new_urls # {} /\ Top.depth < max_depth - 1
                        THEN EnterCrawlUrls(stack, new_urls, Top.depth + 1)
                        ELSE stack
            /\ UNCHANGED cpc
    /\ last' = Step
    /\ UNCHANGED <<respect_robots, max_depth, batch_size, service, domains, calls, approved_domains, loads, load_failed, robots,
                   robots_allowed, visited_urls,
                   pages_crawled, pages_failed, crawl_log, seeds, gets,
                   distance, error_logs>>
    /\ UNCHANGED qvars_but_last

\* the for loop of a _crawl_urls call is over: return to the caller, which
\* is the level above or crawl_domain (`return stats`)
CrawlUrlsReturn ==
    /\ cpc = "crawling"
    /\ NoBatch
    /\ Top.remaining = {}
    /\ stack' = SubSeq(stack, 1, Len(stack) - 1)
    /\ cpc' = IF stack' = <<>> THEN "returned" ELSE cpc
    /\ last' = Step
    /\ UNCHANGED <<respect_robots, max_depth, batch_size, service, domains, calls, approved_domains, loads, load_failed, robots,
                   robots_allowed, visited_urls,
                   pages_crawled, pages_failed, crawl_log, seeds, tasks,
                   new_urls, batch_raised, gets, distance, error_logs>>
    /\ UNCHANGED qvars_but_last

(***************************************************************************)
(* CrawlSpec: one WebCrawler, one crawl_domain call                        *)
(***************************************************************************)
CrawlInit ==
    /\ CrawlerInit
    /\ max_depth = MaxDepth
    /\ batch_size = CrawlBatch
    /\ respect_robots \in BOOLEAN
    /\ domains = <<BaseUrl>>
    /\ QueueInit
    /\ SplitIdle

CrawlNext ==
    \/ CrawlStart
    \/ StartBatch
    \/ \E u \in Urls : RespondHtml(u)
    \/ \E u \in Urls : RespondPdf(u)
    \/ \E u \in Urls : RespondOther(u)
    \/ \E u \in Urls : RespondSslError(u)
    \/ \E u \in Urls : RespondError(u)
    \/ \E u \in Urls : FallbackHtml(u)
    \/ \E u \in Urls : FallbackOther(u)
    \/ \E u \in Urls : FallbackError(u)
    \/ JoinBatch
    \/ CrawlUrlsReturn

CrawlSpec == CrawlInit /\ [][CrawlNext]_vars

(***************************************************************************)
(* SchedulerSpec: CrawlerScheduler._periodic_crawl, one WebCrawler used    *)
(* for the crawl_domain calls of two domains, one after the other          *)
(***************************************************************************)
\* domains_to_crawl
DomainsToCrawl == <<BaseUrl, Canonical>>

SchedulerInit ==
    /\ CrawlerInit
    /\ max_depth = MaxDepth
    /\ batch_size = CrawlBatch
    /\ respect_robots = FALSE
    /\ domains = DomainsToCrawl
    /\ QueueInit
    /\ SplitIdle

SchedulerSpec == SchedulerInit /\ [][CrawlNext]_vars

(***************************************************************************)
(* LevelSpec: one crawl_domain call under every max_crawl_depth and        *)
(* crawler_concurrent_requests up to the bounds, robots.txt not consulted  *)
(***************************************************************************)
LevelInit ==
    /\ CrawlerInit
    /\ max_depth \in 0..MaxDepth
    /\ batch_size \in 1..CrawlBatch
    /\ respect_robots = FALSE
    /\ domains = <<BaseUrl>>
    /\ QueueInit
    /\ SplitIdle

LevelSpec == LevelInit /\ [][CrawlNext]_vars

(***************************************************************************)
(* ShutdownSpec: CrawlerService running one crawl_domain call on its event *)
(* loop, and the shutdown signal                                           *)
(***************************************************************************)
\* what SignalHandler and AsyncStop leave alone
cvars_but_service == <<respect_robots, max_depth, batch_size, domains, calls,
                       approved_domains, loads, load_failed, robots,
                       robots_allowed,
                       visited_urls, pages_crawled, pages_failed, crawl_log,
                       seeds, new_urls, batch_raised, gets, distance,
                       error_logs>>

\* CrawlerService._signal_handler: `self.running = False`, nothing else; the
\* crawl never reads the flag
SignalHandler ==
    /\ service = "running"
    /\ service' = "stopping"
    /\ UNCHANGED <<cpc, stack, tasks>>
    /\ UNCHANGED cvars_but_service
    /\ UNCHANGED <<qvars, svars>>

\* the wait loop of _async_start has seen the flag and _async_stop has
\* stopped the embedding queue and the scheduler: asyncio.run returns and
\* the crawl coroutine, wherever it is suspended, is cancelled
AsyncStop ==
    /\ service = "stopping"
    /\ service' = "stopped"
    /\ cpc' = "cancelled"
    /\ stack' = <<>>
    /\ tasks' = [u \in Urls |-> "none"]
    /\ UNCHANGED cvars_but_service
    /\ UNCHANGED <<qvars, svars>>

ShutdownInit ==
    /\ CrawlerInit
    /\ max_depth = MaxDepth
    /\ batch_size = CrawlBatch
    /\ respect_robots = FALSE
    /\ domains = <<BaseUrl>>
    /\ QueueInit
    /\ SplitIdle

ShutdownNext ==
    \/ CrawlNext
    \/ SignalHandler
    \/ AsyncStop

ShutdownSpec == ShutdownInit /\ [][ShutdownNext]_vars

(***************************************************************************)
(* VectorDatabase._split_text                                              *)
(***************************************************************************)
\* the longest text, and the largest chunk_size and chunk_overlap settings
MaxTextLen == 6
MaxChunk == 5
\* the safety check of the loop: `if iteration > 10000: break`
MaxIterations == 10000

Alphabet == {"a", ".", " "}
Whitespace == {" ", "\n", "\t", "\r"}
Texts == UNION {[1..n -> Alphabet] : n \in 0..MaxTextLen}
ChunkSizes == 1..MaxChunk
Overlaps == (0 - 1)..(MaxChunk + 1)

\* the sentence endings, in the order the loop tries them
Puncts == << <<".", " ">>, <<"!", " ">>, <<"?", " ">>, <<"\n", "\n">> >>

\* txt[lo:hi] with Python's clipping of the bounds (0 <= lo)
Slice(txt, lo, hi) ==
    LET h == Min(hi, Len(txt))
    IN IF lo >= h THEN <<>> ELSE SubSeq(txt, lo + 1, h)

\* txt.rfind(sub, lo, hi): the highest index of a match lying inside
\* txt[lo:hi], or -1
RFind(txt, sub, lo, hi) ==
    LET h == Min(hi, Len(txt))
        hits == {i \in lo..(h - Len(sub)) : Slice(txt, i, i + Len(sub)) = sub}
    IN IF hits = {} THEN 0 - 1
       ELSE CHOOSE i \in hits : \A j \in hits : j <= i

\* str.strip()
RECURSIVE LStrip(_)
LStrip(s) == IF s # <<>> /\ Head(s) \in Whitespace THEN LStrip(Tail(s)) ELSE s
RECURSIVE RStrip(_)
RStrip(s) == IF s # <<>> /\ s[Len(s)] \in Whitespace
             THEN RStrip(SubSeq(s, 1, Len(s) - 1)) ELSE s
Strip(s) == RStrip(LStrip(s))

\* `if overlap >= chunk_size: overlap = chunk_size // 2`
EffectiveOverlap(size, overlap) ==
    IF overlap >= size THEN size \div 2 ELSE overlap

\* the for loop over the sentence endings: the end of the window
RECURSIVE BreakAt(_, _, _, _, _)
BreakAt(txt, from, size, end, k) ==
    IF k > Len(Puncts) THEN end
    ELSE LET last_punct == RFind(txt, Puncts[k], from + size \div 2, end)
         IN IF last_punct # 0 - 1
            THEN last_punct + Len(Puncts[k])
            ELSE BreakAt(txt, from, size, end, k + 1)

\* end = start + chunk_size, moved back to a sentence ending if the window
\* does not reach the end of the text
WindowEnd(txt, from, size) ==
    IF from + size < Len(txt)
    THEN BreakAt(txt, from, size, from + size, 1)
    ELSE from + size

\* the positions (1-based) of the text that text[from:end].strip() holds
ChunkPositions(txt, from, end) ==
    LET window == Slice(txt, from, end)
        first == from + (Len(window) - Len(LStrip(window))) + 1
    IN first..(first + Len(Strip(window)) - 1)

\* mutant: the next window starts at end - overlap, without the floor
NewStart_NoFloor(from, end, overlap) == end - overlap

\* new_start = max(start + 1, end - overlap)
NewStart(from, end, overlap) ==
    IF from + 1 >= end - overlap THEN from + 1 ELSE end - overlap

\* the call: _split_text(text) under the settings
SplitCall ==
    /\ spc = "idle"
    /\ \E txt \in Texts, size \in ChunkSizes, overlap \in Overlaps :
         /\ text' = txt
         /\ chunk_size' = size
         /\ chunk_overlap' = overlap
    /\ start' = 0
    /\ iteration' = 0
    /\ chunks' = <<>>
    /\ covered' = {}
    /\ spc' = "loop"
    /\ UNCHANGED <<qvars, cvars, dvars, fvars>>

\* one iteration of `while start < text_length`
SplitIterate ==
    /\ spc = "loop"
    /\ start < Len(text)
    /\ iteration' = iteration + 1
    /\ IF iteration' > MaxIterations
       THEN /\ spc' = "done"
            /\ UNCHANGED <<start, chunks, covered>>
       ELSE LET end == WindowEnd(text, start, chunk_size)
                chunk == Strip(Slice(text, start, end))
            IN /\ chunks' = IF chunk # <<>> THEN Append(chunks, chunk) ELSE chunks
               /\ covered' = covered \cup ChunkPositions(text, start, end)
               /\ start' = NewStart(start, end,
                                    EffectiveOverlap(chunk_size, chunk_overlap))
               /\ UNCHANGED spc
    /\ UNCHANGED <<text, chunk_size, chunk_overlap>>
    /\ UNCHANGED <<qvars, cvars, dvars, fvars>>

\* the loop condition fails: `return chunks`
SplitReturn ==
    /\ spc = "loop"
    /\ ~(start < Len(text))
    /\ spc' = "done"
    /\ UNCHANGED <<text, chunk_size, chunk_overlap, start, iteration, chunks,
                   covered>>
    /\ UNCHANGED <<qvars, cvars, dvars, fvars>>

(***************************************************************************)
(* SplitSpec: _split_text called once on a bounded text and settings       *)
(***************************************************************************)
SplitInit ==
    /\ CrawlerInit
    /\ max_depth = MaxDepth
    /\ batch_size = CrawlBatch
    /\ respect_robots = TRUE
    /\ domains = <<BaseUrl>>
    /\ QueueInit
    /\ SplitIdle

SplitNext ==
    \/ SplitCall
    \/ SplitIterate
    \/ SplitReturn

SplitSpec == SplitInit /\ [][SplitNext]_vars

(***************************************************************************)
(* BoundarySpec: _split_text called once on a text and a chunk_size long   *)
(* enough for the second half of a window to hold two sentence endings     *)
(***************************************************************************)
LongTextLen == 8
LongChunk == 7
LongAlphabet == Alphabet \cup {"!"}
LongTexts == [1..LongTextLen -> LongAlphabet]

\* the call: _split_text(text) under the settings
LongSplitCall ==
    /\ spc = "idle"
    /\ \E txt \in LongTexts, overlap \in 0..1 :
         /\ text' = txt
         /\ chunk_size' = LongChunk
         /\ chunk_overlap' = overlap
    /\ start' = 0
    /\ iteration' = 0
    /\ chunks' = <<>>
    /\ covered' = {}
    /\ spc' = "loop"
    /\ UNCHANGED <<qvars, cvars, dvars, fvars>>

BoundaryNext ==
    \/ LongSplitCall
    \/ SplitIterate
    \/ SplitReturn

BoundarySpec == SplitInit /\ [][BoundaryNext]_vars

(***************************************************************************)
(* DomainSpec: _is_same_domain called once on bounded URLs                 *)
(***************************************************************************)
DomainInit ==
    /\ CrawlerInit
    /\ max_depth = MaxDepth
    /\ batch_size = CrawlBatch
    /\ respect_robots = TRUE
    /\ domains = <<BaseUrl>>
    /\ QueueInit
    /\ SplitIdle

DomainNext ==
    \/ SameDomainCall
    \/ SameDomainReturn

DomainSpec == DomainInit /\ [][DomainNext]_vars

(***************************************************************************)
(* SitemapSpec: crawl_domain from _get_sitemap_urls to its urls_to_crawl   *)
(***************************************************************************)
\* sitemap_locations
SitemapLocations == <<"/sitemap.xml", "/sitemap_index.xml", "/sitemap-index.xml">>

\* what a GET of a sitemap location gives: an exception, a status other than
\* 200, or status 200 with the URLs _parse_sitemap finds in the body (none
\* when the body does not parse)
NoAnswer(outcome) == [outcome |-> outcome, urls |-> {}]
Status200(urls) == [outcome |-> "200", urls |-> urls]
SitemapAnswers == {NoAnswer("raised"), NoAnswer("not_200")} \cup
                  {Status200(urls) : urls \in SitemapSets}

\* mutant: the loop goes on after a location answered 200
BreakAfterSuccess_Never(answer) == FALSE

\* `if response.status == 200: ... break`
BreakAfterSuccess(answer) == answer.outcome = "200"

\* what the steps of _get_sitemap_urls leave alone
cvars_but_seeds == <<respect_robots, max_depth, batch_size, service, domains,
                     calls, approved_domains, loads, load_failed, robots,
                     robots_allowed, visited_urls, pages_crawled,
                     pages_failed, crawl_log, cpc, stack, tasks, new_urls,
                     batch_raised, gets, distance, error_logs>>

\* crawl_domain reaches `if settings.enable_sitemap_crawling:`; with the
\* setting on, _get_sitemap_urls is called on a site
SitemapCall ==
    /\ smpc = "idle"
    /\ \E enable_sitemap_crawling \in BOOLEAN :
         IF enable_sitemap_crawling
         THEN /\ sm_answers' \in [1..Len(SitemapLocations) -> SitemapAnswers]
              /\ smpc' = "loop"
         ELSE /\ sm_answers' = <<>>
              /\ smpc' = "break"
    /\ UNCHANGED <<sm_requested, sm_urls, seeds>>
    /\ UNCHANGED <<text, chunk_size, chunk_overlap, start, iteration, chunks,
                   spc, covered, dvars, pvars>>
    /\ UNCHANGED <<qvars, cvars_but_seeds>>

\* one iteration of `for sitemap_path in sitemap_locations:`
SitemapRequest ==
    /\ smpc = "loop"
    /\ Len(sm_requested) < Len(SitemapLocations)
    /\ LET i == Len(sm_requested) + 1
           answer == sm_answers[i]
       IN /\ sm_requested' = Append(sm_requested, SitemapLocations[i])
          /\ sm_urls' = IF answer.outcome = "200"
                        THEN sm_urls \cup answer.urls ELSE sm_urls
          /\ smpc' = IF BreakAfterSuccess(answer) THEN "break" ELSE "loop"
    /\ UNCHANGED <<sm_answers, seeds>>
    /\ UNCHANGED <<text, chunk_size, chunk_overlap, start, iteration, chunks,
                   spc, covered, dvars, pvars>>
    /\ UNCHANGED <<qvars, cvars_but_seeds>>

\* `return sitemap_urls`, and crawl_domain's `urls_to_crawl = {base_url}`,
\* `urls_to_crawl.update(sitemap_urls)`
SitemapReturn ==
    /\ \/ smpc = "break"
       \/ smpc = "loop" /\ Len(sm_requested) = Len(SitemapLocations)
    /\ seeds' = {domains[1]} \cup sm_urls
    /\ smpc' = "done"
    /\ UNCHANGED <<sm_answers, sm_requested, sm_urls>>
    /\ UNCHANGED <<text, chunk_size, chunk_overlap, start, iteration, chunks,
                   spc, covered, dvars, pvars>>
    /\ UNCHANGED <<qvars, cvars_but_seeds>>

SitemapInit ==
    /\ CrawlerInit
    /\ max_depth = MaxDepth
    /\ batch_size = CrawlBatch
    /\ respect_robots = FALSE
    /\ domains = <<BaseUrl>>
    /\ QueueInit
    /\ SplitIdle

SitemapNext ==
    \/ SitemapCall
    \/ SitemapRequest
    \/ SitemapReturn

SitemapSpec == SitemapInit /\ [][SitemapNext]_vars

(***************************************************************************)
(* PdfSpec: PDFProcessor.extract_text called once on a PDF                 *)
(***************************************************************************)
\* `len(text.strip()) < 100`
MinTextLength == 100

\* the tiers in the order extract_text runs them
PdfTiers == <<"pypdf2", "pdfplumber", "ocr">>

\* the lengths of the stripped text a tier returns; 0 also when the tier
\* raised, each tier returning "" from its own except clause
PdfLengths == {0, MinTextLength - 1, MinTextLength, MinTextLength + 1}

\* `not text or len(text.strip()) < 100`
TooLittleText(t) == t.length = 0 \/ t.length < MinTextLength

\* `text = self._extract_text_pdfplumber(pdf_data)`,
\* `text = await self._extract_text_ocr(pdf_data)`
AssignText(earlier, later) == later

\* what the steps of extract_text leave alone
not_pvars == <<text, chunk_size, chunk_overlap, start, iteration, chunks, spc,
               covered, dvars, mvars, qvars, cvars>>

\* extract_text is called on a PDF and runs _extract_text_pypdf2
PdfCall ==
    /\ ppc = "idle"
    /\ pdf_tiers' \in [1..Len(PdfTiers) -> PdfLengths]
    /\ enable_ocr' \in BOOLEAN
    /\ pdf_text' = PdfText(PdfTiers[1], pdf_tiers'[1])
    /\ pdf_ran' = <<PdfTiers[1]>>
    /\ ppc' = "tier1"
    /\ UNCHANGED not_pvars

\* `if not text or len(text.strip()) < 100:` and _extract_text_pdfplumber
PdfPlumber ==
    /\ ppc = "tier1"
    /\ IF TooLittleText(pdf_text)
       THEN /\ pdf_text' = AssignText(pdf_text,
                                      PdfText(PdfTiers[2], pdf_tiers[2]))
            /\ pdf_ran' = Append(pdf_ran, PdfTiers[2])
       ELSE UNCHANGED <<pdf_text, pdf_ran>>
    /\ ppc' = "tier2"
    /\ UNCHANGED <<pdf_tiers, enable_ocr>>
    /\ UNCHANGED not_pvars

\* `if (not text or len(text.strip()) < 100) and self.enable_ocr:`,
\* _extract_text_ocr and `return text.strip()`
PdfOcrAndReturn ==
    /\ ppc = "tier2"
    /\ IF TooLittleText(pdf_text) /\ enable_ocr
       THEN /\ pdf_text' = AssignText(pdf_text,
                                      PdfText(PdfTiers[3], pdf_tiers[3]))
            /\ pdf_ran' = Append(pdf_ran, PdfTiers[3])
       ELSE UNCHANGED <<pdf_text, pdf_ran>>
    /\ ppc' = "done"
    /\ UNCHANGED <<pdf_tiers, enable_ocr>>
    /\ UNCHANGED not_pvars

PdfInit ==
    /\ CrawlerInit
    /\ max_depth = MaxDepth
    /\ batch_size = CrawlBatch
    /\ respect_robots = FALSE
    /\ domains = <<BaseUrl>>
    /\ QueueInit
    /\ SplitIdle

PdfNext ==
    \/ PdfCall
    \/ PdfPlumber
    \/ PdfOcrAndReturn

PdfSpec == PdfInit /\ [][PdfNext]_vars

(***************************************************************************)
(* Claims about _save_page and the embedding queue, checked under Spec     *)
(***************************************************************************)
\* the ID of the page stored under the URL of the last _save_page call
SavedId(ps, u) == (CHOOSE p \in ps : p.url = u).id

\* C3: every _save_page call puts the page's ID on the intake if and only if
\* it created the page record or changed its stored content.
C3_EnqueuedIffCreatedOrChanged ==
    [][last'.op = "save" =>
         ((queue' = Append(queue, SavedId(pages', last'.url)))
            <=> (pages' # pages))]_vars

\* C4: a _save_page call with the URL and content already stored changes
\* neither the page table nor the checksum, creates no record and puts
\* nothing on the intake.
C4_UnchangedRecrawlIsNoOp ==
    [][(last'.op = "save" /\ last'.before = last'.content) =>
         /\ pages' = pages
         /\ next_id' = next_id
         /\ queue' = queue
         /\ accepted' = accepted]_vars

\* C4 witness: a re-crawl of a stored page with unchanged content was made
C4_Witness ==
    /\ last.op = "save"
    /\ last.before = last.content
    /\ Cardinality(PagesWithUrl(last.url)) = 1
    /\ queue # <<>>

\* C5: a page ID that was put on the intake twice is embedded, and counted in
\* processed_count, at most once.
C5_DuplicateProcessedOnce ==
    \A i \in Ids : accepted[i] >= 2 => embedded[i] <= 1

\* C6: a failing batch is attempted at most max_retries times; giving it up
\* adds its length to failed_count, marks nothing processed, requeues nothing
\* and leaves the worker collecting the next batch.
C6_FailedBatchDropped ==
    /\ [](\A t \in Tasks : attempt[t] + 1 <= max_retries)
    /\ [][last'.op = "batch_dropped" =>
            \E t \in Tasks :
                /\ wpc[t] = "embed"
                /\ attempt[t] + 1 = max_retries
                /\ failed_count' = failed_count + Len(batch[t])
                /\ processed_ids' = processed_ids
                /\ processed_count' = processed_count
                /\ queue' = queue
                /\ wpc'[t] = "collect"
                /\ batch'[t] = <<>>]_vars

\* C6 witness: a batch was just given up with IDs still on the intake and the
\* worker alive to collect them
C6_Witness ==
    /\ last.op = "batch_dropped"
    /\ failed_count > 0
    /\ queue # <<>>
    /\ \E t \in Tasks : wpc[t] = "collect"

\* C7: when stop() returns (no start() since, no batch given up) no worker is
\* left and every accepted ID is processed or still on the intake.
C7_StopAccountsForEveryId ==
    (last.op = "stop_return" /\ ~is_running /\ failed_count = 0) =>
        /\ ActiveTasks = {}
        /\ \A i \in Ids : accepted[i] > 0 =>
               (i \in processed_ids \/ i \in Range(queue))

\* C8: at most one worker task is collecting or embedding at any time.
C8_SingleConsumer == Cardinality(ActiveTasks) <= 1

(***************************************************************************)
(* Claims about the crawler, checked under CrawlSpec                       *)
(***************************************************************************)
\* C1: with robots.txt checking on and a robots.txt answering 200 with
\* 'Disallow: /', no page is fetched, nothing is visited, counted or logged.
C1_RobotsBlockFetchesNothing ==
    (respect_robots /\ robots = "disallow") =>
        /\ \A u \in Urls : gets[u] = 0
        /\ visited_urls = {}
        /\ crawl_log = {}
        /\ pages_crawled = 0

\* C2: within one session no URL is the target of more than one page GET,
\* the http:// request after a TLS error counting as a GET of the http:// URL.
C2_EachUrlFetchedOnce == \A u \in Urls : gets[u] <= 1

FailureStatuses == {"failed", "ssl_error"}
Returned == cpc \in {"returned", "returned_error"}

C10_SplitTerminates ==
    /\ [][(spc = "loop" /\ spc' = "loop") =>
            (start < Len(text) /\ start' >= start + 1)]_vars
    /\ [](iteration <= Len(text) /\ iteration <= MaxIterations + 1)

\* C10 witness: a call with overlap >= chunk_size on a text of one repeated
\* character that took several iterations has returned
C10_Witness ==
    /\ spc = "done"
    /\ chunk_overlap >= chunk_size
    /\ Len(text) >= 3
    /\ \A i \in 1..Len(text) : text[i] = text[1]
    /\ iteration >= 2

\* C11: when _split_text returns, every non-whitespace character of the text
\* is in a chunk: the windows left no gap and no tail of the text out (the
\* chunks are appended in the order of their windows, see C10).
C11_ChunksCoverText ==
    spc = "done" =>
        \A i \in 1..Len(text) : text[i] \notin Whitespace => i \in covered

\* C12: a text that is non-empty after trimming and shorter than chunk_size
\* is returned as exactly one chunk.
C12_ShortTextOneChunk ==
    (spc = "done" /\ Strip(text) # <<>> /\ Len(text) < chunk_size) =>
        Len(chunks) = 1

\* the page GETs made in the session
TotalGets == SumOver(gets, Urls)

\* crawl_domain returned from a crawl without sitemap URLs, which robots.txt
\* permitted, where the only GET was of the base URL, answered by an HTML
\* page without links to follow
OnePageCrawl ==
    /\ cpc = "returned"
    /\ robots_allowed
    /\ seeds = {BaseUrl}
    /\ TotalGets = 1
    /\ crawl_log = {LogEntry(BaseUrl, "success", "html")}

\* C13: crawling a domain whose only page is a new HTML page without outbound
\* links returns pages_crawled = 1 and pages_failed = 0, with exactly one page
\* ID, that of the page saved, on the intake.
C13_OnePageDomain ==
    OnePageCrawl =>
        /\ pages_crawled = 1
        /\ pages_failed = 0
        /\ Cardinality(pages) = 1
        /\ queue = <<(CHOOSE p \in pages : TRUE).id>>
        /\ AcceptedTotal = 1

\* C13 witness: such a crawl has returned, the page stored under the base URL
C13_Witness ==
    /\ OnePageCrawl
    /\ PagesWithUrl(BaseUrl) # {}
    /\ visited_urls = {BaseUrl}

\* C14: IDs are taken from the intake in FIFO order; no batch larger than
\* batch_size is dispatched, and a batch smaller than batch_size is
\* dispatched only when no ID is left on the intake (it is the last one).
C14_FullBatchesInOrder ==
    [][\A t \in Tasks :
         /\ (wpc[t] = "collect" /\ batch'[t] # batch[t] /\ batch'[t] # <<>>) =>
               (queue # <<>> /\ batch'[t] = Append(batch[t], Head(queue))
                  /\ queue' = Tail(queue))
         /\ (wpc[t] = "collect" /\ wpc'[t] = "embed") =>
               /\ Len(batch[t]) <= BatchSize
               /\ Len(batch[t]) < BatchSize => queue = <<>>]_vars

\* C15: a PDF response whose extracted text is empty is not saved as a page,
\* puts no ID on the intake and does not increment pages_crawled.
C15_EmptyPdfSkipped ==
    [][last'.op = "pdf_no_text" =>
         /\ pages' = pages
         /\ next_id' = next_id
         /\ queue' = queue
         /\ accepted' = accepted
         /\ pages_crawled' = pages_crawled]_vars

\* C15 witness: a PDF without text was just fetched in a crawl that saved
\* another page before it
C15_Witness ==
    /\ last.op = "pdf_no_text"
    /\ pages_crawled > 0
    /\ \E e \in crawl_log : e.status = "pending"

(***************************************************************************)
(* Claims about _is_same_domain, checked under DomainSpec                  *)
(***************************************************************************)
\* the host of a URL: its netloc without the port, in lower case
UrlHost(url) ==
    LET netloc == Lower(UrlNetloc(url))
    IN SubSeq(netloc, 1, FirstOf(netloc, {":"}) - 1)

\* C19: _is_same_domain(u, base) is true whenever the hosts are equal and
\* whenever u's host ends with '.' + the base host without its leading
\* 'www.', the comparison ignoring case and a leading 'www.' on both sides.
C19_SameDomainOnHosts ==
    dpc = "done" =>
        LET host == UrlHost(d_url)
            base_host == UrlHost(d_base)
        IN (\/ host = base_host
            \/ RemovePrefix(host, Www) = RemovePrefix(base_host, Www)
            \/ EndsWith(host, Dot \o RemovePrefix(base_host, Www)))
              => d_result

\* the host of a URL of the crawl
CrawlHost(u) == UrlHost(UrlString(u))

\* the host equals the session's base host, is a subdomain of it, or matches
\* an approved domain by the suffix rule
HostInScope(u) ==
    LET host == RemovePrefix(CrawlHost(u), Www)
        base_host == RemovePrefix(CrawlHost(domains[calls]), Www)
    IN \/ host = base_host
       \/ EndsWith(host, Dot \o base_host)
       \/ \E d \in approved_domains : host = d \/ EndsWith(host, Dot \o d)

\* C16: every URL that is the target of a page GET in a session is on the
\* session's base host, on a subdomain of it, or on an approved domain.
C16_FetchesStayInScope ==
    \A u \in Urls : gets[u] > 0 => HostInScope(u)

(***************************************************************************)
(* Claims about crawl sessions, checked under SchedulerSpec                *)
(***************************************************************************)
\* C17: every crawl_domain call starts its own session: its counters are
\* zero and no seed URL is withheld from the crawl because an earlier call
\* on the same WebCrawler visited it.
C17_SessionsAreIndependent ==
    [][(calls' = calls + 1 /\ cpc' = "crawling") =>
         /\ pages_crawled' = 0
         /\ pages_failed' = 0
         /\ stack'[Len(stack')].remaining = seeds']_vars

(***************************************************************************)
(* Further claims about the page store and the intake, checked under Spec  *)
(***************************************************************************)
\* C18: after any sequence of _save_page calls every stored page's checksum
\* is the hash of its stored content, and no URL has two page records.
C18_ChecksumMatchesContent ==
    /\ \A p \in pages : p.checksum = md5(p.content)
    /\ \A u \in Urls : Cardinality(PagesWithUrl(u)) <= 1

\* C18 witness: a re-crawl has just replaced the stored content of a page
C18_Witness ==
    /\ last.op = "save"
    /\ last.before # NoContent
    /\ last.before # last.content
    /\ StoredContent(last.url) = last.content
    /\ Cardinality(PagesWithUrl(last.url)) = 1

\* C20: the enqueue_page call of a save that created or rewrote a page ends
\* within the save, whatever the intake holds and whatever the workers are
\* doing: it leaves the intake as it was when the ID is in the processed set
\* and otherwise appends the ID exactly once, nothing else on the intake
\* being touched.
C20_EnqueueIsAtomicPut ==
    [][(last'.op = "save" /\ pages' # pages) =>
         LET page_id == SavedId(pages', last'.url)
         IN IF page_id \in processed_ids
            THEN queue' = queue /\ accepted' = accepted
            ELSE /\ queue' = Append(queue, page_id)
                 /\ accepted' = [accepted EXCEPT ![page_id] = @ + 1]]_vars

\* C20 witness: a save has just put its ID on the intake while a worker is
\* in the middle of embedding a batch
C20_Witness ==
    /\ last.op = "save"
    /\ Len(queue) >= 1
    /\ queue[Len(queue)] = SavedId(pages, last.url)
    /\ \E t \in Tasks : wpc[t] = "embed"

(***************************************************************************)
(* C21: the crawl proceeds level by level: while a batch of one level is   *)
(* being fetched, no level above it still has URLs waiting for a batch,    *)
(* and the candidate set of each level holds the links of the level just   *)
(* above it only (the levels on the stack are 0, 1, 2, ... in order).      *)
(***************************************************************************)
C21_LevelByLevel ==
    /\ \A i \in 1..Len(stack) : stack[i].depth = i - 1
    /\ ~NoBatch => \A i \in 1..(Len(stack) - 1) : stack[i].remaining = {}

(***************************************************************************)
(* C22: no page is fetched at a depth of max_depth or more, the seed URLs  *)
(* being at depth 0; with max_depth = 0 nothing is fetched; and a deeper   *)
(* _crawl_urls call is entered only with links the batch just joined       *)
(* returned, one level below it.                                           *)
(***************************************************************************)
C22_DepthBounded ==
    /\ [](\A i \in 1..Len(stack) : stack[i].depth < max_depth)
    /\ [](max_depth = 0 => visited_urls = {} /\ TotalGets = 0 /\ pages = {})
    /\ [][(\E u \in Urls : gets'[u] > gets[u])
            => stack # <<>> /\ Top.depth < max_depth]_vars
    /\ [][(stack # <<>> /\ Len(stack') > Len(stack))
            => /\ new_urls # {}
               /\ stack'[Len(stack')].depth = Top.depth + 1
               /\ stack'[Len(stack')].remaining \subseteq new_urls]_vars

\* the crawl returned at the depth limit: a link was found on the deepest
\* level fetched and not followed
C22_Witness ==
    /\ cpc = "returned"
    /\ max_depth > 0
    /\ \E u \in Urls \ visited_urls : distance[u] = max_depth

(***************************************************************************)
(* C23: when every fetch succeeded, every URL whose link distance from a   *)
(* seed URL is less than max_depth has been fetched when crawl_domain      *)
(* returns, for every batch size.                                          *)
(***************************************************************************)
AllFetchesSucceeded ==
    \A u \in Urls :
       gets[u] > 0 => \E e \in crawl_log : e.url = u /\ e.status = "success"

C23_NearUrlsFetched ==
    (cpc = "returned" /\ AllFetchesSucceeded)
      => \A u \in Urls : distance[u] < max_depth => u \in visited_urls

(***************************************************************************)
(* C24: after a shutdown request the crawl starts no new batch, and the    *)
(* batch in flight is not cut short: it is joined before the crawl ends.   *)
(***************************************************************************)
C24_NoBatchAfterShutdown ==
    /\ [][service # "running" => ~(NoBatch /\ ~NoBatch')]_vars
    /\ [][(service # "running" /\ ~NoBatch /\ NoBatch')
            => cpc' # "cancelled"]_vars

(***************************************************************************)
(* C25: while the queue is running, a batch of fewer than batch_size IDs   *)
(* is handed to _process_batch only once batch_timeout has elapsed since   *)
(* the first ID of the batch was received.                                 *)
(***************************************************************************)
C25_PartialBatchWaitsFromFirstId ==
    [][\A t \in Tasks :
         (/\ wpc[t] = "collect"
          /\ wpc'[t] = "embed"
          /\ is_running
          /\ Len(batch[t]) < BatchSize)
            => elapsed[t] - first_at[t] >= BatchTimeout]_vars

(***************************************************************************)
(* C26: every crawl-log row has one of the statuses success,               *)
(* success_http_fallback, ssl_error, failed and skipped, whatever the      *)
(* outcome of the fetch attempt was.                                       *)
(***************************************************************************)
C26_LogStatusInEnum ==
    \A e \in crawl_log :
       e.status \in {"success", "success_http_fallback", "ssl_error", "failed",
                     "skipped"}

(***************************************************************************)
(* C27: when a fetch attempt ends (the http:// fallback is part of the     *)
(* attempt), _log_crawl adds exactly one row, for the URL the attempt was  *)
(* given, unless the database write itself raises; no other step (the      *)
(* robots.txt and sitemap requests of crawl_domain, the start and the join *)
(* of a batch, the skip of a visited URL, the first GET of an attempt that *)
(* falls back) adds a row, and no step removes or changes one.             *)
(***************************************************************************)
AttemptsEnded ==
    {u \in Urls : tasks[u] \in {"get", "get_http"} /\ tasks'[u] = "done"}

C28_TlsFallback ==
    [][\A u \in Urls :
         /\ (tasks[u] = "get" /\ tasks'[u] = "get_http")
              => /\ u.scheme = "https"
                 /\ gets' = [gets EXCEPT ![HttpUrl(u)] = @ + 1]
         /\ (tasks[u] = "get_http" /\ tasks'[u] # "none") => gets' = gets
         /\ (tasks[u] = "get_http" /\ tasks'[u] = "done")
              => \/ /\ pages_crawled' = pages_crawled + 1
                    /\ pages_failed' = pages_failed
                    /\ \A e \in crawl_log' \ crawl_log :
                          e.status = "success_http_fallback"
                 \/ /\ pages_failed' = pages_failed + 1
                    /\ pages_crawled' = pages_crawled
                    /\ \A e \in crawl_log' \ crawl_log :
                          e.status = "ssl_error"]_vars

(***************************************************************************)
(* C29: when the GET of u is answered from f (f differs from u after a     *)
(* redirect), u and f are both in visited_urls afterwards, the page is     *)
(* stored under f and not under u, and the links returned are those of the *)
(* page resolved against f; visited_urls never loses a member.             *)
(***************************************************************************)
C29_RedirectTargetIsThePage ==
    /\ [][visited_urls \subseteq visited_urls']_vars
    /\ [][(/\ last'.op \in {"html", "pdf"}
           /\ tasks[last'.requested] = "get"
           /\ tasks'[last'.requested] = "done")
            => LET u == last'.requested
                   f == last'.url
               IN /\ {u, f} \subseteq visited_urls'
                  /\ \E p \in pages' : p.url = f /\ p.content = last'.content
                  /\ u # f => {p \in pages' : p.url = u} = PagesWithUrl(u)
                  /\ crawl_log' # crawl_log
                       => new_urls' = new_urls \cup ExtractLinks(last'.page, f)]_vars

\* a redirected GET whose page held a relative link
C29_Witness ==
    /\ last.op = "html"
    /\ last.requested # last.url
    /\ RelativeRoot \in last.page.anchors
    /\ last.url \in new_urls
    /\ last.requested \notin new_urls
    /\ PagesWithUrl(last.url) # {}
    /\ PagesWithUrl(last.requested) = {}

(***************************************************************************)
(* C30: the src of a frame or iframe that resolves to a host which is not  *)
(* on the domain of the page but matches an approved domain is among the   *)
(* links the fetch returns, as an anchor href would be.                    *)
(***************************************************************************)
C30_ApprovedFramesFollowed ==
    [][(/\ last'.op \in {"html", "html_fallback"}
        /\ tasks[last'.requested] # "done"
        /\ tasks'[last'.requested] = "done"
        /\ crawl_log' # crawl_log)
         => \A src \in last'.page.frames :
               LET absolute_url == UrlJoin(last'.base, src)
               IN IsApprovedDomain(UrlString(absolute_url))
                    => absolute_url \in new_urls']_vars

(***************************************************************************)
(* C31: an anchor found on a fetched HTML page whose host equals the base  *)
(* host of the crawl_domain call, or is a subdomain of it, is among the    *)
(* links the fetch returns, whatever the host of the page it was found on. *)
(***************************************************************************)
C31_BaseHostLinksFollowed ==
    [][(/\ last'.op = "html"
        /\ tasks[last'.requested] # "done"
        /\ tasks'[last'.requested] = "done"
        /\ crawl_log' # crawl_log)
         => \A href \in last'.page.anchors :
               LET absolute_url == UrlJoin(last'.base, href)
               IN IsSameDomain(UrlString(absolute_url),
                               UrlString(domains[calls]))
                    => absolute_url \in new_urls']_vars

C33_FirstSitemapWins ==
    /\ Len(sm_requested) <= Len(SitemapLocations)
    /\ \A i \in 1..Len(sm_requested) :
          /\ sm_requested[i] = SitemapLocations[i]
          /\ i < Len(sm_requested) => sm_answers[i].outcome # "200"
    /\ smpc = "done" =>
          seeds = {domains[1]} \cup
                  (IF sm_requested # <<>>
                   THEN sm_answers[Len(sm_requested)].urls ELSE {})

\* the first location raised, the second answered 200 with one URL, and the
\* third, which holds another URL, was not requested
C33_Witness ==
    /\ smpc = "done"
    /\ Len(sm_requested) = 2
    /\ sm_answers[1] = NoAnswer("raised")
    /\ sm_answers[2] = Status200({Canonical})
    /\ sm_answers[3] = Status200({HttpUrl(BaseUrl)})
    /\ seeds = {BaseUrl, Canonical}

(***************************************************************************)
(* C34: extract_text runs pdfplumber only if the stripped text of PyPDF2   *)
(* is empty or shorter than 100 characters, and OCR only if the text is    *)
(* still shorter than 100 characters and OCR is enabled; the text returned *)
(* is that of the last tier run, and it is not shorter than the text of    *)
(* any tier that was run before it.                                        *)
(***************************************************************************)
C34_TiersKeepText ==
    /\ \A i \in 1..Len(pdf_ran) : pdf_ran[i] = PdfTiers[i]
    /\ Len(pdf_ran) >= 2 => pdf_tiers[1] < MinTextLength
    /\ Len(pdf_ran) = 3 => pdf_tiers[2] < MinTextLength /\ enable_ocr
    /\ ppc = "done" =>
          /\ pdf_text.tier = pdf_ran[Len(pdf_ran)]
          /\ \A i \in 1..Len(pdf_ran) : pdf_text.length >= pdf_tiers[i]

(***************************************************************************)
(* C35: when the window does not reach the end of the text and a sentence  *)
(* ending lies in its second half, the chunk ends right after the last     *)
(* sentence ending of any kind there, else at start + chunk_size; the      *)
(* chunk is not longer than chunk_size and the next window starts at the   *)
(* chunk's end less the overlap.                                           *)
(***************************************************************************)
C35_BreakAtLastBoundary ==
    [][(spc = "loop" /\ spc' = "loop" /\ iteration' = iteration + 1) =>
         LET full == start + chunk_size
             ends == {RFind(text, Puncts[k], start + chunk_size \div 2, full)
                        + Len(Puncts[k]) : k \in 1..Len(Puncts)}
                     \ {Len(Puncts[1]) - 1}
             end == IF full < Len(text) /\ ends # {}
                    THEN CHOOSE e \in ends : \A f \in ends : f <= e
                    ELSE full
             chunk == Strip(Slice(text, start, end))
         IN /\ chunks' = IF chunk # <<>> THEN Append(chunks, chunk) ELSE chunks
            /\ Len(chunk) <= chunk_size
            /\ start' = end - EffectiveOverlap(chunk_size, chunk_overlap)]_vars

(***************************************************************************)
(* C36: an ID joins _processed_ids only in the step in which add_documents *)
(* returned for a batch holding it, and never leaves it; in that step      *)
(* every ID of the batch joins the set and processed_count grows by the    *)
(* number of IDs in the batch.                                             *)
(***************************************************************************)
C36_ProcessedOnSuccess ==
    [][LET succeeded == {t \in Tasks : /\ wpc[t] = "embed"
                                       /\ wpc'[t] = "collect"
                                       /\ last'.op # "batch_dropped"}
       IN /\ processed_ids \subseteq processed_ids'
          /\ \A i \in processed_ids' \ processed_ids :
                \E t \in succeeded : i \in Range(batch[t])
          /\ \A t \in succeeded :
                /\ Range(batch[t]) \subseteq processed_ids'
                /\ processed_count' = processed_count + Len(batch[t])]_vars

(***************************************************************************)
(* C37: while the consumer runs and stop() is not called, every page ID on *)
(* the intake is eventually in a batch given to _process_batch, whatever   *)
(* became of the batches before it.                                        *)
(***************************************************************************)
C37_AcceptedIsEventuallyBatched ==
    \A i \in Ids :
       (is_running /\ i \in Range(queue))
          ~> (\E t \in Tasks : wpc[t] = "embed" /\ i \in Range(batch[t]))

\* a batch was given up after its last retry and the ID accepted after it
\* is in a batch given to _process_batch
C37_Witness ==
    /\ is_running
    /\ failed_count > 0
    /\ \E t \in Tasks : /\ wpc[t] = "embed"
                        /\ \E i \in Range(batch[t]) : embedded[i] = 0 /\ accepted[i] > 0
    /\ last.op # "batch_dropped"

(***************************************************************************)
(* C38: once stop() has been called and no consumer task is left, a page   *)
(* ID given to enqueue_page is still put on the intake unless it is in     *)
(* _processed_ids, and until start() is called nothing is taken from the   *)
(* intake and nothing is embedded.                                         *)
(***************************************************************************)
C38_EnqueuedAfterStopIsStranded ==
    [][(~is_running /\ \A t \in Tasks : ~Active(t)) =>
         /\ (/\ last'.op = "save"
             /\ pages' # pages
             /\ SavedId(pages', last'.url) \notin processed_ids)
              => queue' = Append(queue, SavedId(pages', last'.url))
         /\ ~is_running' =>
              /\ \A t \in Tasks : ~Active(t)'
              /\ embedded' = embedded
              /\ processed_count' = processed_count
              /\ SubSeq(queue', 1, Len(queue)) = queue]_vars

\* the queue was started and stopped, its consumer has exited, and the ID
\* of a page saved after that is on the intake
C38_Witness ==
    /\ worker_task # 0
    /\ ~is_running
    /\ \A t \in Tasks : ~Active(t)
    /\ stop_pc = "idle"
    /\ last.op = "save"
    /\ queue # <<>>
    /\ \E i \in Range(queue) : embedded[i] = 0

\* a bound on the steps _crawl_urls at the given depth still makes for one
\* URL of its urls_list: the batch's start and join, two requests, and the
\* call one level down on at most every URL
RECURSIVE StepsPerUrl(_)
StepsPerUrl(depth) ==
    IF depth >= max_depth - 1 THEN 4
    ELSE 5 + Cardinality(Urls) * StepsPerUrl(depth + 1)

\* a bound on the steps crawl_domain still makes: for every _crawl_urls call
\* in progress its return and the URLs left in its urls_list, and for the
\* batch being gathered the requests its tasks still make, its join and the
\* call one level down
CrawlRank ==
    SumOver([i \in 1..Len(stack) |->
               1 + Cardinality(stack[i].remaining) * StepsPerUrl(stack[i].depth)],
            1..Len(stack))
    + (IF NoBatch THEN 0
       ELSE StepsPerUrl(Top.depth) - 3
            + Cardinality({u \in Urls : tasks[u] = "get"}) * 2
            + Cardinality({u \in Urls : tasks[u] = "get_http"}))

(***************************************************************************)
(* C39: crawl_domain terminates: every step of a crawl in progress lowers  *)
(* a bound on the steps left. A task passes the visited check only for a   *)
(* URL that is not in visited_urls and puts it there, visited_urls never   *)
(* loses a URL, so no URL passes the check twice, and the _crawl_urls      *)
(* calls in progress are at depths below max_depth, one per depth.         *)
(***************************************************************************)
C39_CrawlTerminates ==
    /\ [](/\ CrawlRank >= 0
          /\ cpc # "crawling" => CrawlRank = 0
          /\ Len(stack) <= max_depth
          /\ \A i \in 1..Len(stack) : stack[i].depth = i - 1)
    /\ [][/\ cpc = "crawling" => CrawlRank' < CrawlRank
          /\ visited_urls \subseteq visited_urls'
          /\ \A u \in Urls :
                (tasks[u] # "get" /\ tasks'[u] = "get")
                   => u \notin visited_urls /\ u \in visited_urls']_vars

\* a crawl that fetched a seed URL and, one level down, a URL a fetched
\* page linked to, has returned
C39_Witness ==
    /\ cpc = "returned"
    /\ max_depth = MaxDepth
    /\ pages_crawled >= 2
    /\ \E u \in seeds : distance[u] = 0 /\ gets[u] = 1
    /\ \E u \in visited_urls \ seeds : distance[u] = 1 /\ gets[u] = 1

====
